---- MODULE Spec2Model ----
(***************************************************************************)
(* Model of the qmd remote inference layer: the HTTP inference server      *)
(* (remote-server.ts, startRemoteServer) and the proxy client              *)
(* (remote-llm.ts, RemoteLLM).  One action is one turn of the JavaScript   *)
(* event loop: the synchronous code that runs between two awaits,          *)
(* together with the promise continuations it triggers.                    *)
(***************************************************************************)
EXTENDS Integers, Sequences, FiniteSets, TLC

(***************************************************************************)
(* Bounds of the model.                                                    *)
(***************************************************************************)
\* longest run of whitespace between "Bearer" and the token in a header
MaxWs == 2
\* number of termination signals delivered to the server process
MaxSignals == 2

(***************************************************************************)
(* JavaScript values and JSON.                                             *)
(* A value is a tagged record.  Objects never hold a property whose value  *)
(* is undefined: such a property reads like an absent one.  The text on    *)
(* the wire is represented by the JSON value it denotes, BadText being a   *)
(* text that is no JSON.                                                   *)
(***************************************************************************)
Undef == [t |-> "undefined"]
Null == [t |-> "null"]
NaNv == [t |-> "nan"]
Str(s) == [t |-> "str", v |-> s]
Num(n) == [t |-> "num", v |-> n]
Obj(f) == [t |-> "obj", f |-> f]
Arr(e) == [t |-> "arr", e |-> e]
BadText == [t |-> "badtext"]
NoText == [t |-> "notext"]

\* JSON.stringify of a value nested in an array or an object
RECURSIVE Stringify(_)
StringifyMember(v, inArray) ==
    IF v.t = "nan" THEN Null
    ELSE IF v.t = "undefined" THEN (IF inArray THEN Null ELSE Undef)
    ELSE Stringify(v)

\* JSON.stringify(v): the text, as the JSON value it denotes; NoText when
\* JSON.stringify returns undefined
Stringify(v) ==
    CASE v.t = "undefined" -> NoText
      [] v.t = "nan" -> Null
      [] v.t = "arr" -> Arr([i \in DOMAIN v.e |-> StringifyMember(v.e[i], TRUE)])
      [] v.t = "obj" ->
            LET keep == {k \in DOMAIN v.f : v.f[k].t # "undefined"}
            IN  Obj([k \in keep |-> StringifyMember(v.f[k], FALSE)])
      [] OTHER -> v

\* the empty text, the body of a request sent without one
EmptyText == [t |-> "emptytext"]

\* mutant of ParseOk: the failure of JSON.parse is not caught
ParseOkLenient(text) == TRUE

\* JSON.parse(text) succeeds: not on the empty text, nor on a text that is
\* no JSON
ParseOk(text) == text.t \notin {"badtext", "emptytext", "notext"}

\* JSON.parse(text), for a text that parses
JsonParse(text) == text

\* the property read by destructuring, const { name } = body:
\* undefined when the property is absent or body is a primitive or an array
Field(body, name) ==
    IF body.t = "obj" /\ name \in DOMAIN body.f THEN body.f[name] ELSE Undef

\* destructuring null or undefined throws a TypeError
DestructureThrows(body) == body.t \in {"null", "undefined"}

\* an object literal { k1: v1, ... } built from a function of properties
ObjLit(f) == Obj([k \in {x \in DOMAIN f : f[x].t # "undefined"} |-> f[k]])

(***************************************************************************)
(* Strings that the code inspects character by character are sequences of  *)
(* one-character strings.                                                  *)
(***************************************************************************)
Lower(c) ==
    CASE c = "B" -> "b" [] c = "E" -> "e" [] c = "A" -> "a" [] c = "R" -> "r"
      [] OTHER -> c

LowerAll(s) == [i \in DOMAIN s |-> Lower(s[i])]

\* the characters the regular expression class \s matches
IsWs(c) == c \in {" ", "\t"}

bearer == <<"b", "e", "a", "r", "e", "r">>

\* the length of the longest run of whitespace of s that starts at i
RECURSIVE WsRun(_, _)
WsRun(s, i) == IF i <= Len(s) /\ IsWs(s[i]) THEN 1 + WsRun(s, i + 1) ELSE 0

\* a header that the request does not carry: req.headers.authorization is
\* undefined
Absent == <<"<absent>">>

\* req.headers.authorization?.replace(/^Bearer\s+/i, ""): the first match of
\* "Bearer" (any case) followed by one or more whitespace characters at the
\* start is removed; a header without that prefix is left as it is
StripBearer(h) ==
    IF h = Absent THEN Absent
    ELSE IF /\ Len(h) >= Len(bearer) + 1
            /\ LowerAll(SubSeq(h, 1, Len(bearer))) = bearer
            /\ IsWs(h[Len(bearer) + 1])
         THEN SubSeq(h, Len(bearer) + 1 + WsRun(h, Len(bearer) + 1), Len(h))
         ELSE h

\* the falsy token: null, undefined or the empty string
NoToken == << >>

\* mutant of AuthPasses: the comparison is made even without a token
AuthPassesNoGuard(token, h) == StripBearer(h) = token

\* lines 109-115: the request passes the authentication step
AuthPasses(token, h) ==
    IF token # NoToken THEN StripBearer(h) = token ELSE TRUE

(***************************************************************************)
(* The inference engine (LlamaCpp, llm.js) is a black box: a call returns  *)
(* one of the values of its result type, or throws.                        *)
(***************************************************************************)
ScoreObj(n) == Obj([model |-> Str("m"), score |-> n])

EngineValues(op) ==
    CASE op = "tokenize" -> {Arr(<< >>), Arr(<<Num(7), Num(8)>>)}
      [] op = "countTokens" -> {Num(2), NaNv}
      [] op = "detokenize" -> {Str("x")}
      [] op = "embedBatch" -> {Arr(<<ScoreObj(Num(1)), Null>>), Arr(<<ScoreObj(NaNv)>>)}
      [] OTHER -> {Null, ScoreObj(Num(1)), ScoreObj(NaNv)}

\* what a failing call throws: an Error with a message, a value without a
\* message property (throw "text"), null or undefined
Throwables == {"Error", "NoMessage", "Nullish"}

\* reading err.message throws when err is null or undefined
MessageReadThrows(e) == e = "Nullish"

\* err.message
ErrMessage(e) == IF e = "Error" THEN Str("engine failure") ELSE Undef

\* an engine invocation: the method and the arguments it is called with
Invocation(op, args) == [op |-> op, args |-> args]

\* the engine instances: one whose detokenize inverts its tokenize, and one
\* whose tokenize drops the leading blank of a text
Engines == {"exact", "lossy"}

\* the texts a caller tokenizes
Texts == {Str(""), Str("ab"), Str(" ab")}

\* llm.tokenize(text) of engine e: an array of integers
EngineTokenize(e, text) ==
    CASE text = Str("ab") -> Arr(<<Num(7), Num(8)>>)
      [] text = Str(" ab") ->
            IF e = "exact" THEN Arr(<<Num(9), Num(7), Num(8)>>)
            ELSE Arr(<<Num(7), Num(8)>>)
      [] OTHER -> Arr(<< >>)

\* llm.detokenize(tokens) of engine e
EngineDetokenize(e, tokens) ==
    CASE tokens = Arr(<<Num(7), Num(8)>>) -> Str("ab")
      [] tokens = Arr(<<Num(9), Num(7), Num(8)>>) -> Str(" ab")
      [] OTHER -> Str("")

(***************************************************************************)
(* The server: startRemoteServer.                                          *)
(***************************************************************************)
OpPaths ==
    {"/embed", "/embed-batch", "/generate", "/expand-query", "/rerank",
     "/tokenize", "/count-tokens", "/detokenize", "/model-exists"}

KnownPaths == OpPaths \cup {"/health", "/device"}

\* a request target that new URL() rejects: "//" has an empty host
BadUrl == "//"

\* line 104: new URL(req.url || "/", base) throws a TypeError
UrlThrows(url) == url = BadUrl

\* line 105: url.pathname, the target without its query
Pathname(url) ==
    CASE url = "/health?v=1" -> "/health"
      [] url = "" -> "/"
      [] OTHER -> url

\* lines 150-213: the engine method a path is routed to
RouteOp(path) ==
    CASE path = "/embed" -> "embed"
      [] path = "/embed-batch" -> "embedBatch"
      [] path = "/generate" -> "generate"
      [] path = "/expand-query" -> "expandQuery"
      [] path = "/rerank" -> "rerank"
      [] path = "/tokenize" -> "tokenize"
      [] path = "/count-tokens" -> "countTokens"
      [] path = "/detokenize" -> "detokenize"
      [] path = "/model-exists" -> "modelExists"
      [] OTHER -> "default"

\* lines 152-209: the properties each route takes from the body, in the
\* order the engine method receives them
RouteFields(path) ==
    CASE path = "/embed" -> <<"text", "options">>
      [] path = "/embed-batch" -> <<"texts">>
      [] path = "/generate" -> <<"prompt", "options">>
      [] path = "/expand-query" -> <<"query", "options">>
      [] path = "/rerank" -> <<"query", "documents", "options">>
      [] path = "/tokenize" -> <<"text">>
      [] path = "/count-tokens" -> <<"text">>
      [] path = "/detokenize" -> <<"tokens">>
      [] path = "/model-exists" -> <<"model">>
      [] OTHER -> << >>

\* Array.from(v) throws on null and undefined
ArrayFromThrows(v) == v.t \in {"null", "undefined"}

\* Array.from(v): a copy of an array, the characters of a string, and the
\* empty array for any other value
ArrayFrom(v) ==
    CASE v.t = "arr" -> v
      [] v.t = "str" -> Arr(<<v>>)
      [] OTHER -> Arr(<< >>)

\* lines 154-211: the value a route hands to sendJSON for an engine result
RouteThrows(op, result) == op = "tokenize" /\ ArrayFromThrows(result)

\* mutant of RouteData: the tokens are sent under another name
RouteDataWrongKey(op, result) ==
    CASE op = "tokenize" -> ObjLit([token |-> ArrayFrom(result)])
      [] op = "countTokens" -> ObjLit([count |-> result])
      [] op = "detokenize" -> ObjLit([text |-> result])
      [] OTHER -> result

RouteData(op, result) ==
    CASE op = "tokenize" -> ObjLit([tokens |-> ArrayFrom(result)])
      [] op = "countTokens" -> ObjLit([count |-> result])
      [] op = "detokenize" -> ObjLit([text |-> result])
      [] OTHER -> result

\* a slot of the server: a connection and the request being handled on it
FreeReq ==
    [pc |-> "free", method |-> "", url |-> "", hdr |-> Absent,
     body |-> EmptyText, authed |-> FALSE, invoked |-> << >>,
     threw |-> "none", ret |-> Undef, resps |-> << >>]

IdleReq == [FreeReq EXCEPT !.pc = "idle"]

\* lines 90-97: sendJSON throws when JSON.stringify(data) is undefined
\* (Buffer.byteLength of undefined), before anything is written
SendJSONThrows(data) == Stringify(data) = NoText

\* lines 90-97: sendJSON(res, status, data), ending the handler
sendJSON(r, status, data) ==
    [r EXCEPT !.pc = "done",
              !.resps = Append(@, [status |-> status, body |-> Stringify(data)])]

\* lines 99-101: sendError(res, status, message)
sendError(r, status, message) == sendJSON(r, status, ObjLit([error |-> message]))

\* the handler's promise rejects: nothing is sent
Rejected(r) == [r EXCEPT !.pc = "hung"]

\* message || "Internal server error"
OrDefault(m, d) == IF m.t = "undefined" \/ m = Str("") THEN d ELSE m

\* mutant of MethodRefused: the method is checked on known paths only
MethodRefusedKnownOnly(method, path) == method # "POST" /\ path \in KnownPaths

\* lines 134-138: the request is refused for its method
MethodRefused(method, path) == method # "POST"

\* mutant of Prologue: the two GET routes are served before the
\* authentication step
PrologueRoutesFirst(token, r) ==
    IF UrlThrows(r.url) THEN Rejected(r)
    ELSE LET path == Pathname(r.url)
             a == [r EXCEPT !.authed = TRUE]
         IN  IF path = "/health" /\ r.method = "GET"
               THEN sendJSON(r, 200, ObjLit([status |-> Str("ok"), uptime |-> Num(0)]))
             ELSE IF path = "/device" /\ r.method = "GET"
               THEN [r EXCEPT !.pc = "engine",
                              !.invoked = Append(@, Invocation("getDeviceInfo", << >>))]
             ELSE IF ~AuthPasses(token, r.hdr) THEN sendError(r, 401, Str("Unauthorized"))
             ELSE IF MethodRefused(r.method, path)
               THEN sendError(a, 405, Str("Method not allowed"))
             ELSE [a EXCEPT !.pc = "body"]

\* lines 104-147: the handler from its start to its first await
Prologue(token, r) ==
    IF UrlThrows(r.url) THEN Rejected(r)
    ELSE LET path == Pathname(r.url)
             a == [r EXCEPT !.authed = TRUE]
         IN  IF ~AuthPasses(token, r.hdr) THEN sendError(r, 401, Str("Unauthorized"))
             ELSE IF path = "/health" /\ r.method = "GET"
               THEN sendJSON(a, 200, ObjLit([status |-> Str("ok"), uptime |-> Num(0)]))
             ELSE IF path = "/device" /\ r.method = "GET"
               THEN [a EXCEPT !.pc = "engine",
                              !.invoked = Append(@, Invocation("getDeviceInfo", << >>))]
             ELSE IF MethodRefused(r.method, path)
               THEN sendError(a, 405, Str("Method not allowed"))
             ELSE [a EXCEPT !.pc = "body"]

\* lines 81-88: readBody rejects when the request stream fails
ReadBodyRejects(body) == body.t = "streamerr"

\* lines 140-217: from the end of readBody to the engine call of the route
AfterBody(r) ==
    LET path == Pathname(r.url) IN
    IF ReadBodyRejects(r.body) \/ ~ParseOk(r.body)
      THEN sendError(r, 400, Str("Invalid JSON body"))
    ELSE LET body == JsonParse(r.body)
             fields == RouteFields(path)
         IN  IF RouteOp(path) = "default"
               THEN sendError(r, 404, Str("Unknown route: " \o path))
             ELSE IF DestructureThrows(body)
               THEN sendError(r, 500, Str("Cannot destructure"))
             ELSE [r EXCEPT !.pc = "engine",
                            !.invoked = Append(@, Invocation(RouteOp(path),
                                [i \in DOMAIN fields |-> Field(body, fields[i])]))]

\* lines 125-130: the /device route after getDeviceInfo has settled
DeviceSettled(r, ok, v, e) ==
    IF ok
      THEN IF SendJSONThrows(v) THEN sendError(r, 500, Str("TypeError"))
           ELSE sendJSON([r EXCEPT !.ret = v], 200, v)
    ELSE IF MessageReadThrows(e) THEN Rejected([r EXCEPT !.threw = e])
    ELSE sendError([r EXCEPT !.threw = e], 500, ErrMessage(e))

\* lines 149-221: a route after its engine call has settled
RouteSettled(r, ok, v, e) ==
    LET op == r.invoked[Len(r.invoked)].op IN
    IF ok
      THEN IF RouteThrows(op, v) \/ SendJSONThrows(RouteData(op, v))
             THEN sendError([r EXCEPT !.ret = v], 500, Str("TypeError"))
           ELSE sendJSON([r EXCEPT !.ret = v], 200, RouteData(op, v))
    ELSE IF MessageReadThrows(e) THEN Rejected([r EXCEPT !.threw = e])
    ELSE sendError([r EXCEPT !.threw = e], 500,
                   OrDefault(ErrMessage(e), Str("Internal server error")))

(***************************************************************************)
(* State.                                                                  *)
(***************************************************************************)
VARIABLES
    authToken,      \* line 54: the token the server was started with
    engineHealthy,  \* the engine never throws
    startup,        \* lines 58-78: the pre-warm stage awaited, then "serving"
    listening,      \* the listener accepts new connections
    proc,           \* the server process: running, exited (status 0), killed
                    \* (by a signal), crashed (by a request), failed (by a
                    \* dispose that rejected)
    signals,        \* termination signals delivered so far
    disposing,      \* llm.dispose() calls that have not settled
    disposeCalls,   \* llm.dispose() calls made so far
    req,            \* the server's connections and the requests on them
    clientToken,    \* RemoteLLM.authToken
    call,           \* the RemoteLLM calls
    warmFailed,     \* lines 75-77: a pre-warm stage has thrown
    llm,            \* line 56: the engine instance the server holds
    env,            \* process.env.QMD_AUTH_TOKEN
    file,           \* the content of ~/.config/qmd/auth.json
    hist,           \* the last generateToken or revokeToken, and its result
    lifecycle,      \* the lifecycle stubs of RemoteLLM called so far
    trip            \* a caller that detokenizes what it has tokenized

\* the credential store, and the callers of RemoteLLM
storeVars == <<env, file, hist>>
callerVars == <<lifecycle, trip>>

vars ==
    <<authToken, engineHealthy, startup, listening, proc, signals, disposing,
      disposeCalls, req, clientToken, call, warmFailed, llm, storeVars,
      callerVars>>

\* the connections of RemoteLLM calls, and the connection of another client
CallIds == {"c1", "c2"}
RawSlot == "raw"
Slots == CallIds \cup {RawSlot}

\* the tokens of the model
TokenT == <<"s", "k">>
TokenW == <<"s", "x">>

Spaces(n, w) == [i \in 1..n |-> w]

\* the Authorization headers another client sends
RawHeaders ==
    {Absent, << >>, TokenT, TokenW,
     <<"B", "e", "a", "r", "e", "r">> \o TokenT,
     <<"B", "e", "a", "r", "e">> \o <<" ">> \o TokenT,
     <<"B", "a", "s", "i", "c">> \o <<" ">> \o TokenT,
     <<"B", "e", "a", "r", "e", "r">> \o <<"\t">> \o TokenT}
    \cup {p \o Spaces(n, " ") \o k :
            p \in {<<"B", "e", "a", "r", "e", "r">>, <<"b", "E", "A", "R", "E", "R">>},
            n \in 1..MaxWs, k \in {TokenT, TokenW}}

Methods == {"GET", "POST", "PUT"}

RawUrls == KnownPaths \cup {"/nonexistent", "/health?v=1", BadUrl}

\* the bodies another client sends: no body, a text that is no JSON, a
\* stream that fails, and JSON texts
RawBodies ==
    {EmptyText, BadText, [t |-> "streamerr"], Null, Num(1),
     Obj([text |-> Str("x")])}

NewReq(m, u, h, b) ==
    [FreeReq EXCEPT !.pc = "new", !.method = m, !.url = u, !.hdr = h, !.body = b]

\* an async function of the server has ended in r: a rejection nobody
\* handles ends the process or not, as the runtime decides
Settle(i, r) ==
    /\ req' = [req EXCEPT ![i] = r]
    /\ IF r.pc = "hung" THEN proc' \in {"running", "crashed"} ELSE proc' = proc

(***************************************************************************)
(* Server actions.                                                         *)
(***************************************************************************)
\* mutant of PrewarmStep: a stage that throws ends startRemoteServer
PrewarmStepAborting ==
    /\ proc = "running"
    /\ startup # "serving"
    /\ \E ok \in BOOLEAN :
         /\ ok \/ ~engineHealthy
         /\ startup' = IF ~ok \/ startup = "rerank" THEN "serving"
                       ELSE IF startup = "embed" THEN "generate" ELSE "rerank"
         /\ warmFailed' = ~ok
         /\ listening' = (ok /\ startup' = "serving")
         /\ proc' = IF ok THEN proc ELSE "failed"
    /\ UNCHANGED <<authToken, engineHealthy, signals, disposing,
                   disposeCalls, req, clientToken, call,
                   storeVars, llm, callerVars>>

\* lines 61-78, 224-241: a pre-warm stage settles; after the last one, or
\* after the first that fails, the listener is bound and the signal
\* handlers are installed
PrewarmStep ==
    /\ proc = "running"
    /\ startup # "serving"
    /\ \E ok \in BOOLEAN :
         /\ ok \/ ~engineHealthy
         /\ startup' = IF ~ok \/ startup = "rerank" THEN "serving"
                       ELSE IF startup = "embed" THEN "generate" ELSE "rerank"
         /\ warmFailed' = ~ok
    /\ listening' = (startup' = "serving")
    /\ UNCHANGED <<authToken, engineHealthy, proc, signals, disposing,
                   disposeCalls, req, clientToken, call,
                   storeVars, llm, callerVars>>

\* the listener accepts a connection
Connect(i) ==
    /\ proc = "running"
    /\ listening
    /\ req[i].pc = "free"
    /\ req' = [req EXCEPT ![i] = IdleReq]
    /\ UNCHANGED <<authToken, engineHealthy, startup, listening, proc, signals,
                   disposing, disposeCalls, clientToken, call,
                   storeVars, llm, callerVars, warmFailed>>

\* lines 103-147: a request of another client arrives on its connection
RawRequest(i) ==
    /\ proc = "running"
    /\ req[i].pc = "idle"
    /\ \E m \in Methods, u \in RawUrls, h \in RawHeaders, b \in RawBodies :
         Settle(i, Prologue(authToken, NewReq(m, u, h, b)))
    /\ UNCHANGED <<authToken, engineHealthy, startup, listening, signals,
                   disposing, disposeCalls, clientToken, call,
                   storeVars, llm, callerVars, warmFailed>>

\* lines 140-217: readBody settles
BodyRead(i) ==
    /\ proc = "running"
    /\ req[i].pc = "body"
    /\ Settle(i, AfterBody(req[i]))
    /\ UNCHANGED <<authToken, engineHealthy, startup, listening, signals,
                   disposing, disposeCalls, clientToken, call,
                   storeVars, llm, callerVars, warmFailed>>

\* lines 125-130, 149-221: the engine call of a request settles
EngineReturn(i) ==
    /\ proc = "running"
    /\ req[i].pc = "engine"
    /\ LET op == req[i].invoked[Len(req[i].invoked)].op IN
       \E ok \in BOOLEAN, v \in EngineValues(op), e \in Throwables :
         /\ ok \/ ~engineHealthy
         /\ Settle(i, IF op = "getDeviceInfo" THEN DeviceSettled(req[i], ok, v, e)
                      ELSE RouteSettled(req[i], ok, v, e))
    /\ UNCHANGED <<authToken, engineHealthy, startup, listening, signals,
                   disposing, disposeCalls, clientToken, call,
                   storeVars, llm, callerVars, warmFailed>>

\* lines 186-206: the engine call of a /tokenize or /detokenize request
\* settles, with what the tokenizer of the engine instance computes
TokenizerReturn(i) ==
    /\ proc = "running"
    /\ req[i].pc = "engine"
    /\ LET inv == req[i].invoked[Len(req[i].invoked)] IN
       /\ inv.op \in {"tokenize", "detokenize"}
       /\ \E ok \in BOOLEAN, e \in Throwables :
            /\ ok \/ ~engineHealthy
            /\ Settle(i, RouteSettled(req[i], ok,
                    IF inv.op = "tokenize" THEN EngineTokenize(llm, inv.args[1])
                    ELSE EngineDetokenize(llm, inv.args[1]), e))
    /\ UNCHANGED <<authToken, engineHealthy, startup, listening, signals,
                   disposing, disposeCalls, clientToken, call,
                   storeVars, llm, callerVars, warmFailed>>

\* the other client has read the response and keeps the connection
Release(i) ==
    /\ req[i].pc = "done"
    /\ req' = [req EXCEPT ![i] = IdleReq]
    /\ UNCHANGED <<authToken, engineHealthy, startup, listening, proc, signals,
                   disposing, disposeCalls, clientToken, call,
                   storeVars, llm, callerVars, warmFailed>>

\* the other client closes its connection
Disconnect(i) ==
    /\ req[i].pc \in {"idle", "done", "hung"}
    /\ req' = [req EXCEPT ![i] = FreeReq]
    /\ UNCHANGED <<authToken, engineHealthy, startup, listening, proc, signals,
                   disposing, disposeCalls, clientToken, call,
                   storeVars, llm, callerVars, warmFailed>>

\* lines 233-238, first half: shutdown() up to its await
shutdown ==
    /\ listening' = FALSE
    /\ disposeCalls' = disposeCalls + 1
    /\ disposing' = disposing + 1
    /\ proc' = proc

\* lines 240-241: SIGINT or SIGTERM is delivered; before the handlers are
\* installed the signal ends the process
Signal ==
    /\ proc = "running"
    /\ signals < MaxSignals
    /\ signals' = signals + 1
    /\ IF startup = "serving" THEN shutdown
       ELSE /\ proc' = "killed"
            /\ UNCHANGED <<listening, disposeCalls, disposing>>
    /\ UNCHANGED <<authToken, engineHealthy, startup, req, clientToken, call,
                   storeVars, llm, callerVars, warmFailed>>

\* lines 236-237: a dispose settles; process.exit(0) follows when it
\* resolved; a rejection is handled by nobody and the process goes on or
\* ends in failure, as the runtime decides
DisposeReturn ==
    /\ proc = "running"
    /\ disposing > 0
    /\ disposing' = disposing - 1
    /\ \E ok \in BOOLEAN :
         /\ ok \/ ~engineHealthy
         /\ proc' \in IF ok THEN {"exited"} ELSE {"running", "failed"}
    /\ UNCHANGED <<authToken, engineHealthy, startup, listening, signals,
                   disposeCalls, req, clientToken, call,
                   storeVars, llm, callerVars, warmFailed>>

(***************************************************************************)
(* The proxy client: RemoteLLM.                                            *)
(***************************************************************************)
ClientOps ==
    {"embed", "generate", "modelExists", "expandQuery", "rerank", "embedBatch",
     "tokenize", "countTokens", "detokenize", "getDeviceInfo"}

\* the arguments a caller passes, within the types of the interface; an
\* option left out is undefined
CallArgs(op) ==
    CASE op = "embed" ->
            {<<Str("x"), Undef>>, <<Str("x"), Obj([isQuery |-> Str("true")])>>}
      [] op = "generate" ->
            {<<Str("x"), Undef>>, <<Str("x"), Obj([maxTokens |-> Num(1)])>>,
             <<Str("x"), Obj([temperature |-> NaNv])>>}
      [] op = "expandQuery" ->
            {<<Str("x"), Undef>>, <<Str("x"), Obj([context |-> Str("c")])>>}
      [] op = "rerank" ->
            {<<Str("x"), Arr(<<Obj([file |-> Str("f"), text |-> Str("d")])>>), Undef>>}
      [] op = "embedBatch" -> {<<Arr(<<Str("x"), Str("y")>>)>>}
      [] op = "detokenize" -> {<<Arr(<< >>)>>, <<Arr(<<Num(7), Num(8)>>)>>}
      [] op = "getDeviceInfo" -> {<< >>}
      [] OTHER -> {<<Str("x")>>}

\* lines 368-430: the HTTP method of an operation
ClientMethod(op) == IF op = "getDeviceInfo" THEN "GET" ELSE "POST"

\* lines 368-430: the path of an operation
ClientPath(op) ==
    CASE op = "embed" -> "/embed"
      [] op = "generate" -> "/generate"
      [] op = "modelExists" -> "/model-exists"
      [] op = "expandQuery" -> "/expand-query"
      [] op = "rerank" -> "/rerank"
      [] op = "embedBatch" -> "/embed-batch"
      [] op = "tokenize" -> "/tokenize"
      [] op = "countTokens" -> "/count-tokens"
      [] op = "detokenize" -> "/detokenize"
      [] op = "getDeviceInfo" -> "/device"

\* lines 368-430: the object an operation passes to post as the body
ClientBody(op, args) ==
    CASE op = "embed" -> ObjLit([text |-> args[1], options |-> args[2]])
      [] op = "generate" -> ObjLit([prompt |-> args[1], options |-> args[2]])
      [] op = "modelExists" -> ObjLit([model |-> args[1]])
      [] op = "expandQuery" -> ObjLit([query |-> args[1], options |-> args[2]])
      [] op = "rerank" ->
            ObjLit([query |-> args[1], documents |-> args[2], options |-> args[3]])
      [] op = "embedBatch" -> ObjLit([texts |-> args[1]])
      [] op = "tokenize" -> ObjLit([text |-> args[1]])
      [] op = "countTokens" -> ObjLit([text |-> args[1]])
      [] op = "detokenize" -> ObjLit([tokens |-> ArrayFrom(args[1])])
      [] op = "getDeviceInfo" -> Undef

\* lines 310-312, 339-341: the Authorization header of a call
ClientHeader(token) ==
    IF token # NoToken
      THEN <<"B", "e", "a", "r", "e", "r">> \o <<" ">> \o token
      ELSE Absent

\* lines 318-323, 347-351: the request fetch sends
ClientRequest(token, op, args) ==
    NewReq(ClientMethod(op), ClientPath(op), ClientHeader(token),
           IF ClientMethod(op) = "GET" THEN EmptyText
           ELSE Stringify(ClientBody(op, args)))

\* mutant of Unwrap: the envelope of the response is returned as it is
UnwrapNothing(op, parsed) == parsed

\* lines 407-420: what an operation returns of the parsed response
Unwrap(op, parsed) ==
    CASE op = "tokenize" -> Field(parsed, "tokens")
      [] op = "countTokens" -> Field(parsed, "count")
      [] op = "detokenize" -> Field(parsed, "text")
      [] OTHER -> parsed

\* mutant of RespOk: only the statuses below 200 are refused
RespOkLoose(status) == status >= 200

\* resp.ok
RespOk(status) == status >= 200 /\ status <= 299

NoResp == [status |-> 0, body |-> NoText]

IdleCall ==
    [pc |-> "idle", op |-> "", args |-> << >>, timer |-> "none", sent |-> FALSE,
     resp |-> NoResp, outcome |-> "none", result |-> Undef, errStatus |-> 0,
     errText |-> NoText, fetches |-> 0, abortedBy |-> "none", errPath |-> ""]

\* mutant of clearTimeout: the timer is left armed
clearTimeoutForgotten(t) == t

\* lines 331-333, 359-361: finally { clearTimeout(timer) }; clearing a
\* timer that has fired changes nothing
clearTimeout(t) == IF t = "armed" THEN "cleared" ELSE t

\* the call ends: its finally block runs and its promise settles
Complete(k, outcome) ==
    [k EXCEPT !.pc = "done", !.outcome = outcome, !.timer = clearTimeout(@)]

\* lines 325-330, 353-358: the call after the response body has been read;
\* read is FALSE when reading it failed
AfterResponse(k, read) ==
    IF ~RespOk(k.resp.status)
      THEN [Complete(k, "StatusError") EXCEPT
              !.errPath = ClientPath(k.op),
              !.errStatus = k.resp.status,
              !.errText = IF read THEN k.resp.body ELSE EmptyText]
    ELSE IF ~read \/ ~ParseOk(k.resp.body) THEN Complete(k, "BodyError")
    ELSE [Complete(k, "ok") EXCEPT !.result = Unwrap(k.op, JsonParse(k.resp.body))]

\* the AbortController a call's timer aborts: its own
ControllerOf(c) == c

\* mutant of Aborted: the signal is not passed to fetch, the abort is lost
AbortedIgnored(k, by) == k

\* lines 315, 344: controller.abort() on the calls that listen to the
\* controller: a pending fetch or body read rejects with an AbortError
Aborted(k, by) ==
    LET a == [k EXCEPT !.abortedBy = by] IN
    IF k.pc = "fetch" THEN Complete(a, "AbortError")
    ELSE IF k.pc = "body" /\ RespOk(k.resp.status) THEN Complete(a, "AbortError")
    ELSE IF k.pc = "body" THEN AfterResponse(a, FALSE)
    ELSE k

(***************************************************************************)
(* Client actions.                                                         *)
(***************************************************************************)
\* lines 305-323, 336-351: an operation among ops is called: the timer is
\* armed and fetch is started.  A call identifier stands for one connection
\* at a time: the handler of its previous request has ended
StartCall(c, ops) ==
    /\ call[c].pc = "idle"
    /\ req[c].pc \notin {"body", "engine"}
    /\ \E op \in ops : \E args \in CallArgs(op) :
         call' = [call EXCEPT ![c] =
                    [IdleCall EXCEPT !.pc = "fetch", !.op = op, !.args = args,
                                     !.timer = "armed", !.fetches = 1]]
    /\ req' = [req EXCEPT ![c] = IF @.pc \in {"done", "idle"} THEN IdleReq ELSE FreeReq]
    /\ UNCHANGED <<authToken, engineHealthy, startup, listening, proc, signals,
                   disposing, disposeCalls, clientToken,
                   storeVars, llm, callerVars, warmFailed>>

\* the request of a call reaches the server, on a connection kept alive or
\* on a new one, and the handler runs to its first await
Deliver(c) ==
    /\ call[c].pc = "fetch"
    /\ ~call[c].sent
    /\ proc = "running"
    /\ req[c].pc = "idle" \/ (req[c].pc = "free" /\ listening)
    /\ call' = [call EXCEPT ![c].sent = TRUE]
    /\ Settle(c, Prologue(authToken,
                          ClientRequest(clientToken, call[c].op, call[c].args)))
    /\ UNCHANGED <<authToken, engineHealthy, startup, listening, signals,
                   disposing, disposeCalls, clientToken,
                   storeVars, llm, callerVars, warmFailed>>

\* line 318, 347: fetch resolves with the response
RespHeaders(c) ==
    /\ call[c].pc = "fetch"
    /\ call[c].sent
    /\ req[c].pc = "done"
    /\ call' = [call EXCEPT ![c].pc = "body", ![c].resp = req[c].resps[1]]
    /\ UNCHANGED <<authToken, engineHealthy, startup, listening, proc, signals,
                   disposing, disposeCalls, req, clientToken,
                   storeVars, llm, callerVars, warmFailed>>

\* lines 325-330, 353-358: the body of the response has been read
BodyDone(c) ==
    /\ call[c].pc = "body"
    /\ call' = [call EXCEPT ![c] = AfterResponse(@, TRUE)]
    /\ UNCHANGED <<authToken, engineHealthy, startup, listening, proc, signals,
                   disposing, disposeCalls, req, clientToken,
                   storeVars, llm, callerVars, warmFailed>>

\* reading the body of the response fails: the connection is lost
BodyFail(c) ==
    /\ call[c].pc = "body"
    /\ call' = [call EXCEPT ![c] = AfterResponse(@, FALSE)]
    /\ UNCHANGED <<authToken, engineHealthy, startup, listening, proc, signals,
                   disposing, disposeCalls, req, clientToken,
                   storeVars, llm, callerVars, warmFailed>>

\* mutant of NetworkFail: the request is sent again once
NetworkFailRetried(c) ==
    /\ call[c].pc = "fetch"
    /\ call' = [call EXCEPT ![c] =
                  IF @.fetches < 2
                    THEN [@ EXCEPT !.fetches = @ + 1, !.sent = FALSE]
                    ELSE Complete(@, "NetworkError")]
    /\ UNCHANGED <<authToken, engineHealthy, startup, listening, proc, signals,
                   disposing, disposeCalls, req, clientToken,
                   storeVars, llm, callerVars, warmFailed>>

\* fetch rejects: connection refused or lost
NetworkFail(c) ==
    /\ call[c].pc = "fetch"
    /\ call' = [call EXCEPT ![c] = Complete(@, "NetworkError")]
    /\ UNCHANGED <<authToken, engineHealthy, startup, listening, proc, signals,
                   disposing, disposeCalls, req, clientToken,
                   storeVars, llm, callerVars, warmFailed>>

\* lines 315, 344: the deadline of a call elapses: () => controller.abort()
TimerFire(c) ==
    /\ call[c].timer = "armed"
    /\ call' = [k \in CallIds |->
                  IF k = c
                    THEN Aborted([call[k] EXCEPT !.timer = "fired"], c)
                  ELSE IF ControllerOf(k) = ControllerOf(c)
                    THEN Aborted(call[k], c)
                  ELSE call[k]]
    /\ UNCHANGED <<authToken, engineHealthy, startup, listening, proc, signals,
                   disposing, disposeCalls, req, clientToken,
                   storeVars, llm, callerVars, warmFailed>>

\* the caller has taken the outcome of the call
Return(c) ==
    /\ call[c].pc = "done"
    /\ call' = [call EXCEPT ![c] = IdleCall]
    /\ UNCHANGED <<authToken, engineHealthy, startup, listening, proc, signals,
                   disposing, disposeCalls, req, clientToken,
                   storeVars, llm, callerVars, warmFailed>>

(***************************************************************************)
(* The credential store: auth.ts.  The content of the file is the JSON     *)
(* value its text denotes (BadText for a text that is no JSON), Missing    *)
(* when there is no file, and IsDirectory when the path cannot be read,    *)
(* written or unlinked as a file.  Tokens are sequences of characters.     *)
(***************************************************************************)
Missing == [t |-> "missing"]
IsDirectory == [t |-> "directory"]

\* the truthiness of a value that is undefined, null or a string of
\* characters
Truthy(v) == v.t \notin {"undefined", "null", "nan"} /\ (v.t = "str" => v.v # << >>)

\* a || b
Or(a, b) == IF Truthy(a) THEN a ELSE b

\* a ?? b
Coalesce(a, b) == IF a.t \in {"undefined", "null"} THEN b ELSE a

\* line 34: existsSync(AUTH_FILE)
existsSync(f) == f # Missing

\* lines 32-40: readStoredToken(); a failure of readFileSync or of
\* JSON.parse, and the read of a property of null, are caught
readStoredToken(f) ==
    IF ~existsSync(f) THEN Null
    ELSE IF f = IsDirectory \/ ~ParseOk(f) THEN Null
    ELSE IF DestructureThrows(JsonParse(f)) THEN Null
    ELSE Or(Field(JsonParse(f), "token"), Null)

\* mutant of getAuthToken: the stored token comes first
getAuthTokenFileFirst(e, f) == Or(readStoredToken(f), e)

\* lines 46-48: getAuthToken()
getAuthToken(e, f) == Or(e, readStoredToken(f))

\* line 55: the values of randomBytes(32).toString("base64url"), strings of
\* 43 characters
NewTokens == {TokenT, TokenW}

\* lines 58-63: the text written, JSON.stringify(config, null, 2) + "\n"
ConfigText(token) == Stringify(Obj([token |-> Str(token), createdAt |-> Str("t")]))

\* the last operation of the store that returned, what it returned, the
\* token the file held before it, and whether no RemoteLLM call was under
\* way then
NoHist == [last |-> "none", ret |-> Undef, before |-> Undef, quiet |-> FALSE]

Quiet == \A c \in DOMAIN call : call[c].pc = "idle"

\* the values of the environment variable: unset, empty, a token
EnvValues == {Undef, Str(<< >>), Str(TokenT), Str(TokenW)}

\* the contents of the file before the first operation
FileContents ==
    {Missing, IsDirectory, BadText, EmptyText, Null, Num(1),
     Obj([createdAt |-> Str("t")]),
     Obj([token |-> Str(<< >>), createdAt |-> Str("t")]),
     ConfigText(TokenT)}

\* line 54: options.authToken ?? getAuthToken(), as the token the handler
\* compares with: a falsy one is no token
StartToken(option, e, f) ==
    LET v == Coalesce(option, getAuthToken(e, f))
    IN  IF Truthy(v) THEN v.v ELSE NoToken

\* the authToken option of startRemoteServer
TokenOptions == {Undef, Str(<< >>), Str(TokenW)}

\* mutant of generateToken: a file that exists is not overwritten
generateTokenKeepsOld ==
    /\ \E token \in NewTokens :
         /\ file \notin {IsDirectory}
         /\ file' = IF existsSync(file) THEN file ELSE ConfigText(token)
         /\ hist' = [last |-> "generateToken", ret |-> Str(token),
                     before |-> readStoredToken(file), quiet |-> Quiet]
    /\ UNCHANGED <<authToken, engineHealthy, startup, listening, proc, signals,
                   disposing, disposeCalls, req, clientToken, call, env, llm,
                   callerVars, warmFailed>>

\* lines 54-65: generateToken(); when mkdirSync or writeFileSync throws
\* (always on a directory) the call throws and nothing is written
generateToken ==
    /\ \E token \in NewTokens, written \in BOOLEAN :
         /\ file = IsDirectory => ~written
         /\ file' = IF written THEN ConfigText(token) ELSE file
         /\ hist' = IF written
                      THEN [last |-> "generateToken", ret |-> Str(token),
                            before |-> readStoredToken(file), quiet |-> Quiet]
                      ELSE hist
    /\ UNCHANGED <<authToken, engineHealthy, startup, listening, proc, signals,
                   disposing, disposeCalls, req, clientToken, call, env, llm,
                   callerVars, warmFailed>>

\* mutant of revokeToken: the running server forgets its token
revokeTokenLive ==
    /\ \E unlinked \in BOOLEAN :
         /\ unlinked => existsSync(file) /\ file # IsDirectory
         /\ file' = IF unlinked THEN Missing ELSE file
         /\ authToken' = IF unlinked THEN NoToken ELSE authToken
         /\ hist' = [last |-> "revokeToken", ret |-> unlinked,
                     before |-> readStoredToken(file), quiet |-> Quiet]
    /\ UNCHANGED <<engineHealthy, startup, listening, proc, signals,
                   disposing, disposeCalls, req, clientToken, call, env, llm,
                   callerVars, warmFailed>>

\* lines 70-79: revokeToken(); when unlinkSync throws (always on a
\* directory) the error is caught, the file stays, and false is returned
revokeToken ==
    /\ \E unlinked \in BOOLEAN :
         /\ unlinked => existsSync(file) /\ file # IsDirectory
         /\ ~existsSync(file) => ~unlinked
         /\ file' = IF unlinked THEN Missing ELSE file
         /\ hist' = [last |-> "revokeToken", ret |-> unlinked,
                     before |-> readStoredToken(file), quiet |-> Quiet]
    /\ UNCHANGED <<authToken, engineHealthy, startup, listening, proc, signals,
                   disposing, disposeCalls, req, clientToken, call, env, llm,
                   callerVars, warmFailed>>

\* the environment variable is set or unset in the process that uses the
\* store
SetEnv ==
    /\ \E v \in EnvValues : v # env /\ env' = v
    /\ UNCHANGED <<authToken, engineHealthy, startup, listening, proc, signals,
                   disposing, disposeCalls, req, clientToken, call, file, hist,
                   llm, callerVars, warmFailed>>

(***************************************************************************)
(* The callers of RemoteLLM.                                               *)
(***************************************************************************)
\* the stubs called so far, the last one, and whether no call was under
\* way when it was called
NoStubs == [called |-> {}, last |-> "none", quiet |-> FALSE]

\* lines 395-397, 436-442: the methods of RemoteLLM with an empty body
StubNames == {"dispose", "unloadIdleResources", "touchActivity"}

\* mutant of Stub: dispose asks the server to dispose of its engine
StubDisposesServer(m) ==
    /\ lifecycle' = [called |-> lifecycle.called \cup {m}, last |-> m,
                     quiet |-> Quiet]
    /\ disposeCalls' = IF m = "dispose" THEN disposeCalls + 1 ELSE disposeCalls
    /\ UNCHANGED <<authToken, engineHealthy, startup, listening, proc, signals,
                   disposing, req, clientToken, call, storeVars, llm,
                   trip, warmFailed>>

\* lines 395-397, 436-442: dispose(), unloadIdleResources() or
\* touchActivity() is called, whatever the calls under way
Stub(m) ==
    /\ lifecycle' = [called |-> lifecycle.called \cup {m}, last |-> m,
                     quiet |-> Quiet]
    /\ UNCHANGED <<authToken, engineHealthy, startup, listening, proc, signals,
                   disposing, disposeCalls, req, clientToken, call, storeVars,
                   llm, trip, warmFailed>>

\* the caller of a round trip: the text, the tokens RemoteLLM.tokenize
\* returned for it, and the text RemoteLLM.detokenize returned for them
NoTrip == [pc |-> "idle", text |-> Undef, tokens |-> Undef, back |-> Undef]

\* lines 305-323: a call of operation op with arguments args begins
Begin(op, args) ==
    [IdleCall EXCEPT !.pc = "fetch", !.op = op, !.args = args,
                     !.timer = "armed", !.fetches = 1]

\* lines 407-410: the caller calls tokenize(text)
TripStart(c) ==
    /\ trip.pc = "idle"
    /\ call[c].pc = "idle"
    /\ req[c].pc \notin {"body", "engine"}
    /\ \E text \in Texts :
         /\ trip' = [NoTrip EXCEPT !.pc = "tokenize", !.text = text]
         /\ call' = [call EXCEPT ![c] = Begin("tokenize", <<text>>)]
    /\ req' = [req EXCEPT ![c] = IF @.pc \in {"done", "idle"} THEN IdleReq ELSE FreeReq]
    /\ UNCHANGED <<authToken, engineHealthy, startup, listening, proc, signals,
                   disposing, disposeCalls, clientToken, storeVars, llm,
                   lifecycle, warmFailed>>

\* lines 417-420: tokenize has returned and the caller calls detokenize
\* with the tokens; a tokenize that failed ends the round trip
TripNext(c) ==
    /\ trip.pc = "tokenize"
    /\ call[c].pc = "done"
    /\ IF call[c].outcome = "ok"
         THEN /\ trip' = [trip EXCEPT !.pc = "detokenize", !.tokens = call[c].result]
              /\ call' = [call EXCEPT ![c] = Begin("detokenize", <<call[c].result>>)]
              /\ req' = [req EXCEPT ![c] = IdleReq]
         ELSE /\ trip' = [trip EXCEPT !.pc = "failed"]
              /\ UNCHANGED <<call, req>>
    /\ UNCHANGED <<authToken, engineHealthy, startup, listening, proc, signals,
                   disposing, disposeCalls, clientToken, storeVars, llm,
                   lifecycle, warmFailed>>

\* detokenize has returned or failed
TripEnd(c) ==
    /\ trip.pc = "detokenize"
    /\ call[c].pc = "done"
    /\ trip' = IF call[c].outcome = "ok"
                 THEN [trip EXCEPT !.pc = "done", !.back = call[c].result]
                 ELSE [trip EXCEPT !.pc = "failed"]
    /\ UNCHANGED <<authToken, engineHealthy, startup, listening, proc, signals,
                   disposing, disposeCalls, req, clientToken, call, storeVars,
                   llm, lifecycle, warmFailed>>

\* the caller starts over
TripReset(c) ==
    /\ trip.pc \in {"done", "failed"}
    /\ trip' = NoTrip
    /\ call' = [call EXCEPT ![c] = IdleCall]
    /\ UNCHANGED <<authToken, engineHealthy, startup, listening, proc, signals,
                   disposing, disposeCalls, req, clientToken, storeVars, llm,
                   lifecycle, warmFailed>>

(***************************************************************************)
(* Specifications.                                                         *)
(***************************************************************************)
InitCommon ==
    /\ engineHealthy \in BOOLEAN
    /\ startup = "embed"
    /\ listening = FALSE
    /\ proc = "running"
    /\ signals = 0
    /\ disposing = 0
    /\ disposeCalls = 0
    /\ req = [i \in Slots |-> FreeReq]
    /\ call = [c \in CallIds |-> IdleCall]
    /\ warmFailed = FALSE

\* no operation of the credential store has been made
NoStore == env = Undef /\ file = Missing /\ hist = NoHist

\* no caller has used the lifecycle stubs or started a round trip
NoCallers == lifecycle = NoStubs /\ trip = NoTrip

\* the server and a client that sends any request
InitServer ==
    /\ InitCommon
    /\ authToken \in {NoToken, TokenT}
    /\ clientToken = NoToken
    /\ llm = "exact"
    /\ NoStore
    /\ NoCallers

NextServer ==
    \/ PrewarmStep
    \/ Signal
    \/ DisposeReturn
    \/ Connect(RawSlot)
    \/ RawRequest(RawSlot)
    \/ BodyRead(RawSlot)
    \/ EngineReturn(RawSlot)
    \/ Release(RawSlot)
    \/ Disconnect(RawSlot)

SpecServer == InitServer /\ [][NextServer]_vars

\* the server and a RemoteLLM whose caller makes one call at a time, of any
\* operation
InitProxy ==
    /\ InitCommon
    /\ authToken \in {NoToken, TokenT}
    /\ clientToken \in {NoToken, TokenT, TokenW}
    /\ llm = "exact"
    /\ NoStore
    /\ NoCallers

ClientStep(c, ops) ==
    \/ StartCall(c, ops)
    \/ Deliver(c)
    \/ BodyRead(c)
    \/ EngineReturn(c)
    \/ RespHeaders(c)
    \/ BodyDone(c)
    \/ BodyFail(c)
    \/ NetworkFail(c)
    \/ TimerFire(c)
    \/ Return(c)

NextProxy ==
    \/ PrewarmStep
    \/ ClientStep("c1", ClientOps)

SpecProxy == InitProxy /\ [][NextProxy]_vars

\* the server and a RemoteLLM with concurrent calls, of one operation that
\* goes through post and of the operation that goes through get
ConcurrentOps == {"embed", "getDeviceInfo"}

NextCalls ==
    \/ PrewarmStep
    \/ \E c \in CallIds : ClientStep(c, ConcurrentOps)

\* a RemoteLLM configured with a token, the server's or another
InitCalls ==
    /\ InitCommon
    /\ authToken \in {NoToken, TokenT}
    /\ clientToken \in {TokenT, TokenW}
    /\ llm = "exact"
    /\ NoStore
    /\ NoCallers

SpecCalls == InitCalls /\ [][NextCalls]_vars

\* the server with one of the engine instances, and a caller that
\* detokenizes through RemoteLLM what it has tokenized through it
InitRoundTrip ==
    /\ InitCommon
    /\ authToken \in {NoToken, TokenT}
    /\ clientToken \in {NoToken, TokenT}
    /\ llm \in Engines
    /\ NoStore
    /\ NoCallers

NextRoundTrip ==
    \/ PrewarmStep
    \/ TripStart("c1")
    \/ TripNext("c1")
    \/ TripEnd("c1")
    \/ TripReset("c1")
    \/ Deliver("c1")
    \/ BodyRead("c1")
    \/ TokenizerReturn("c1")
    \/ RespHeaders("c1")
    \/ BodyDone("c1")
    \/ BodyFail("c1")
    \/ NetworkFail("c1")
    \/ TimerFire("c1")

SpecRoundTrip == InitRoundTrip /\ [][NextRoundTrip]_vars

\* the server and a RemoteLLM whose caller makes calls and uses the
\* lifecycle stubs
StubOps == {"generate"}

NextStubs ==
    \/ PrewarmStep
    \/ ClientStep("c1", StubOps)
    \/ \E m \in StubNames : Stub(m)

SpecStubs == InitProxy /\ [][NextStubs]_vars

\* the credential store, a server started with the token the store
\* resolves, and a RemoteLLM making one call at a time
StoreOps == {"countTokens"}

InitStore ==
    /\ InitCommon
    /\ env \in EnvValues
    /\ file \in FileContents
    /\ hist = NoHist
    /\ \E option \in TokenOptions : authToken = StartToken(option, env, file)
    /\ clientToken \in {TokenT, TokenW}
    /\ llm = "exact"
    /\ NoCallers

NextStore ==
    \/ generateToken
    \/ revokeToken
    \/ SetEnv
    \/ PrewarmStep
    \/ ClientStep("c1", StoreOps)

SpecStore == InitStore /\ [][NextStore]_vars

(***************************************************************************)
(* Properties of the server.                                               *)
(***************************************************************************)
\* the slots that hold a request, and those whose handler has ended
HasRequest(i) == req[i].pc \notin {"free", "idle"}
Ended(i) == req[i].pc \in {"done", "hung"}
Status(i) == req[i].resps[1].status
ErrorBody(msg) == Obj([error |-> Str(msg)])

\* h is "Bearer" in any case, one or more whitespace characters, and token
IsBearerOf(h, token) ==
    /\ h # Absent
    /\ \E n \in 1..Len(h) :
         /\ Len(h) = Len(bearer) + n + Len(token)
         /\ LowerAll(SubSeq(h, 1, Len(bearer))) = bearer
         /\ \A j \in (Len(bearer) + 1)..(Len(bearer) + n) : IsWs(h[j])
         /\ SubSeq(h, Len(bearer) + n + 1, Len(h)) = token

\* C1: with a token T configured, a request passes the authentication step
\* only if its Authorization header is "Bearer T"; every other request
\* with a path (no header, wrong token, malformed prefix, the bare token)
\* is answered 401 and nothing else
C1_OnlyBearerTokenPasses ==
    \A i \in Slots :
      (/\ authToken # NoToken
       /\ HasRequest(i)
       /\ ~UrlThrows(req[i].url)
       /\ ~IsBearerOf(req[i].hdr, authToken))
      => /\ ~req[i].authed
         /\ req[i].pc = "done"
         /\ req[i].resps = <<[status |-> 401, body |-> ErrorBody("Unauthorized")]>>

\* C2: with no token configured no request is answered 401, whatever its
\* Authorization header, path and method
C2_NoTokenNever401 ==
    authToken = NoToken =>
      \A i \in Slots : \A j \in DOMAIN req[i].resps : req[i].resps[j].status # 401

\* C2 witness: without a token, a request that carries a Bearer header
\* with some token is answered 200
C2_Witness ==
    /\ authToken = NoToken
    /\ \E i \in Slots :
         /\ req[i].pc = "done"
         /\ IsBearerOf(req[i].hdr, TokenW)
         /\ Status(i) = 200

\* a response body of the form {error: <string>}
IsErrorEnvelope(b) ==
    b.t = "obj" /\ DOMAIN b.f = {"error"} /\ b.f["error"].t = "str"

\* C4: no request makes the handler fail without an answer or ends the
\* process, and a request whose engine call threw is answered 500 with
\* {error: <message>}
C4_FailureBecomes500 ==
    /\ proc # "crashed"
    /\ \A i \in Slots :
         /\ req[i].pc # "hung"
         /\ req[i].threw # "none" =>
              /\ req[i].pc = "done"
              /\ Len(req[i].resps) = 1
              /\ Status(i) = 500
              /\ IsErrorEnvelope(req[i].resps[1].body)

\* C5: a request whose handler has ended has exactly one response, which
\* is a 2xx without an error envelope or a non-2xx with {error: <string>}
C5_OneResponseOneShape ==
    \A i \in Slots :
      Ended(i) =>
        /\ Len(req[i].resps) = 1
        /\ IF RespOk(Status(i))
             THEN ~IsErrorEnvelope(req[i].resps[1].body)
             ELSE IsErrorEnvelope(req[i].resps[1].body)

\* the request is one of the two GET routes
IsGetRoute(i) ==
    req[i].method = "GET" /\ Pathname(req[i].url) \in {"/health", "/device"}

\* C6 as stated: an authenticated request is answered 405 exactly when its
\* path is known and its verb is wrong for it, and a request to a path that
\* is no route is answered 404 with "Unknown route: <path>"
C6_Original ==
    \A i \in Slots :
      (req[i].pc = "done" /\ req[i].authed) =>
        LET path == Pathname(req[i].url)
            wrongVerb == \/ path \in OpPaths /\ req[i].method # "POST"
                         \/ path \in {"/health", "/device"} /\ req[i].method # "GET"
        IN  /\ Status(i) = 405 <=> wrongVerb
            /\ path \notin KnownPaths =>
                 /\ Status(i) = 404
                 /\ req[i].resps[1].body = ErrorBody("Unknown route: " \o path)

\* C6 amended: an authenticated request is answered 405 exactly when it is
\* not a POST and not GET /health or GET /device, whatever its path; it is
\* answered 404 exactly when it is a POST with a body that parses whose path
\* is none of the nine inference paths, and then with "Unknown route: <path>"
C6_MethodBeforeRoute ==
    \A i \in Slots :
      (req[i].pc = "done" /\ req[i].authed) =>
        LET path == Pathname(req[i].url) IN
        /\ Status(i) = 405 <=> (req[i].method # "POST" /\ ~IsGetRoute(i))
        /\ Status(i) = 404 <=>
             /\ req[i].method = "POST"
             /\ req[i].body.t \notin {"badtext", "emptytext", "streamerr"}
             /\ path \notin OpPaths
        /\ Status(i) = 404 =>
             req[i].resps[1].body = ErrorBody("Unknown route: " \o path)

\* C6 witness: GET on a path that is no route is answered 405, and POST
\* /health is answered 404
C6_Witness ==
    \E i \in Slots :
      /\ req[i].pc = "done" /\ req[i].authed
      /\ req[i].method = "GET" /\ req[i].url = "/nonexistent"
      /\ Status(i) = 405

\* the body received is no JSON text: it is empty, malformed, or its stream
\* failed before the end
Unparsable(b) == b.t \in {"badtext", "emptytext", "streamerr"}

\* C7: an authenticated POST whose body is not parsable JSON is answered
\* 400 "Invalid JSON body" whatever its path and invokes no engine
\* operation; a request whose body parses is never answered 400
C7_BadBody400 ==
    \A i \in Slots :
      /\ (req[i].authed /\ req[i].method = "POST" /\ Unparsable(req[i].body)) =>
           /\ req[i].invoked = << >>
           /\ req[i].pc \in {"body", "done"}
           /\ req[i].pc = "done" =>
                req[i].resps = <<[status |-> 400, body |-> ErrorBody("Invalid JSON body")]>>
      /\ (req[i].pc = "done" /\ Status(i) = 400) => Unparsable(req[i].body)

\* C7 witness: a POST to an inference path with a malformed body has been
\* answered 400
C7_Witness ==
    \E i \in Slots :
      /\ req[i].pc = "done" /\ req[i].authed
      /\ req[i].method = "POST" /\ req[i].url = "/embed"
      /\ req[i].body = BadText
      /\ Status(i) = 400

\* C8: after a termination signal the listener accepts nothing, dispose is
\* invoked at most once, and the process has exited with success only when
\* that one dispose has completed
C8_DisposeOnceThenExit ==
    /\ (signals > 0 /\ proc # "killed") => ~listening
    /\ disposeCalls <= 1
    /\ proc = "exited" => (disposeCalls = 1 /\ disposing = 0)

(***************************************************************************)
(* Properties of the credential store.                                     *)
(***************************************************************************)
\* the environment supplies a token: the variable is set and not empty
Override == env.t = "str" /\ env.v # << >>

\* C13 as stated: without an environment override, getAuthToken returns
\* the token of the last generateToken when that was the last operation of
\* the store, and absent when the last operation was a revokeToken
C13_Original ==
    ~Override =>
      /\ hist.last = "generateToken" => getAuthToken(env, file) = hist.ret
      /\ hist.last = "revokeToken" => getAuthToken(env, file) = Null

\* C13 amended: without an environment override, getAuthToken returns the
\* token of the last generateToken when that was the last operation that
\* returned, absent after a revokeToken that returned true, and after a
\* revokeToken that returned false what the file held before it
C13_LastStoreOperation ==
    ~Override =>
      /\ hist.last = "generateToken" => getAuthToken(env, file) = hist.ret
      /\ (hist.last = "revokeToken" /\ hist.ret = TRUE) =>
           getAuthToken(env, file) = Null
      /\ (hist.last = "revokeToken" /\ hist.ret = FALSE) =>
           getAuthToken(env, file) = hist.before

\* C13 witness: a generateToken has overwritten the token of an earlier one
\* and getAuthToken returns the new token
C13_Witness ==
    /\ ~Override
    /\ hist.last = "generateToken"
    /\ hist.before = Str(TokenT) /\ hist.ret = Str(TokenW)
    /\ getAuthToken(env, file) = Str(TokenW)

\* the token field of a file whose text is a JSON object with a token that
\* is not empty, absent for every other state of the file
FileToken(f) ==
    IF f.t = "obj" /\ "token" \in DOMAIN f.f /\ f.f["token"] # Str(<< >>)
      THEN f.f["token"] ELSE Null

\* C14: getAuthToken returns the environment's token when there is one,
\* whatever the file and the operations before; otherwise the token of the
\* file, or absent; it returns a string or null in every state
C14_EnvironmentFirst ==
    /\ Override => getAuthToken(env, file) = env
    /\ ~Override => getAuthToken(env, file) = FileToken(file)
    /\ getAuthToken(env, file).t \in {"str", "null"}

\* C14 witness: a token has just been generated and stored, and the
\* environment supplies another one, which getAuthToken returns
C14_Witness ==
    /\ env = Str(TokenW)
    /\ hist.last = "generateToken" /\ file = ConfigText(TokenT)
    /\ getAuthToken(env, file) = Str(TokenW)


(***************************************************************************)
(* Properties of the proxy client.                                         *)
(***************************************************************************)
\* the server accepts the token of the client
Matching == authToken = NoToken \/ clientToken = authToken

\* JSON.parse(JSON.stringify(v)) is v
JsonStable(v) == Stringify(v) # NoText /\ JsonParse(Stringify(v)) = v

\* the arguments survive JSON, an argument left out being undefined
ArgsStable(args) == \A j \in DOMAIN args : args[j] = Undef \/ JsonStable(args[j])

\* the call has run the same-named engine operation once with its own
\* arguments and has returned what the engine returned
Equivalent(c) ==
    /\ call[c].outcome = "ok"
    /\ call[c].sent
    /\ req[c].invoked = <<Invocation(call[c].op, call[c].args)>>
    /\ call[c].result = req[c].ret

\* the call was ended by its deadline or by a failure of the network
CutShort(c) == call[c].outcome \in {"AbortError", "NetworkError", "BodyError"}

\* C3 as stated, for every argument value and every engine result: a call
\* that the network and its deadline let end, against a server that accepts
\* the token and an engine that does not fail, is equivalent to the direct
\* call of the engine
C3_Original ==
    \A c \in CallIds :
      (call[c].pc = "done" /\ Matching /\ engineHealthy /\ ~CutShort(c))
      => Equivalent(c)

\* C3 amended: the same, for a call that was not ended by its deadline or
\* by a network failure, and whose arguments and engine result are values
\* that JSON serialization preserves
C3_ProxyEquivalence ==
    \A c \in CallIds :
      (/\ call[c].pc = "done" /\ Matching /\ engineHealthy
       /\ ~CutShort(c)
       /\ ArgsStable(call[c].args)
       /\ JsonStable(req[c].ret))
      => Equivalent(c)

\* C3 witness: with the token configured on both sides, a rerank call has
\* returned the engine's result
C3_Witness ==
    \E c \in CallIds :
      /\ authToken = TokenT /\ clientToken = TokenT /\ engineHealthy
      /\ call[c].pc = "done" /\ call[c].op = "rerank"
      /\ call[c].outcome = "ok"
      /\ call[c].result = ScoreObj(Num(1))
      /\ req[c].invoked = <<Invocation("rerank", call[c].args)>>

\* the timers of RemoteLLM fire when their deadline elapses
FairCalls == SpecCalls /\ \A c \in CallIds : WF_vars(TimerFire(c))

InFlight(c) == call[c].pc \in {"fetch", "body"}

\* C9: a call in flight eventually ends; a call whose deadline elapsed
\* before any response ends in an AbortError raised by its own timer,
\* which no network failure produces
C9_DeadlineEndsCall ==
    /\ \A c \in CallIds : InFlight(c) ~> (call[c].pc = "done")
    /\ [](\A c \in CallIds :
            /\ (call[c].pc = "done" /\ call[c].timer = "fired"
                  /\ call[c].resp = NoResp)
               => (call[c].outcome = "AbortError" /\ call[c].abortedBy = c)
            /\ call[c].outcome = "NetworkError" => call[c].timer # "fired")

\* C9 witness: a call whose request the server never answered has ended in
\* an AbortError
C9_Witness ==
    \E c \in CallIds :
      /\ call[c].pc = "done" /\ call[c].sent /\ req[c].pc = "hung"
      /\ call[c].outcome = "AbortError" /\ call[c].timer = "fired"

\* C10: the armed timers are those of the calls in flight, and a call is
\* aborted by no timer but its own
C10_TimersMatchCalls ==
    /\ {c \in CallIds : call[c].timer = "armed"} = {c \in CallIds : InFlight(c)}
    /\ \A c \in CallIds : call[c].abortedBy \in {"none", c}

\* C10 witness: of two concurrent calls one has been aborted by its timer
\* and the other is still in flight with its timer armed
C10_Witness ==
    \E c, d \in CallIds :
      /\ c # d
      /\ call[c].pc = "done" /\ call[c].abortedBy = c /\ call[c].timer = "fired"
      /\ InFlight(d) /\ call[d].timer = "armed"

\* C11: a call returns a result only when the status of the response is
\* in 200..299; when the response has any other status the call fails with
\* an error that carries the path, the status and the body text, the text
\* being empty when the body could not be read
C11_ResultOnlyOnSuccess ==
    \A c \in CallIds :
      call[c].pc = "done" =>
        /\ call[c].outcome = "ok" =>
             /\ call[c].resp = req[c].resps[1]
             /\ call[c].resp.status \in 200..299
        /\ call[c].outcome # "ok" => call[c].result = Undef
        /\ (call[c].resp # NoResp /\ call[c].resp.status \notin 200..299) =>
             /\ call[c].outcome = "StatusError"
             /\ call[c].errPath = ClientPath(call[c].op)
             /\ call[c].errStatus = req[c].resps[1].status
             /\ call[c].errText \in {req[c].resps[1].body, EmptyText}

\* C11 witness: a call answered 401 whose deadline elapsed while the body
\* was read has failed with the status and an empty text
C11_Witness ==
    \E c \in CallIds :
      /\ call[c].pc = "done" /\ call[c].outcome = "StatusError"
      /\ call[c].errStatus = 401 /\ call[c].errPath = "/rerank"
      /\ call[c].errText = EmptyText /\ call[c].abortedBy = c

\* C12: a call issues one request whatever its outcome: fetch is called
\* once, the server handles at most one request for it, and an outcome of
\* any kind ends the call
C12_OneRequestPerCall ==
    \A c \in CallIds :
      /\ call[c].pc # "idle" =>
           /\ call[c].fetches = 1
           /\ Len(req[c].resps) <= 1
           /\ Len(req[c].invoked) <= 1
      /\ call[c].outcome # "none" => call[c].pc = "done"

\* C12 witness: a call whose request the server handled and whose
\* connection was then lost has ended in a network error after one request
C12_Witness ==
    \E c \in CallIds :
      /\ call[c].pc = "done" /\ call[c].outcome = "NetworkError"
      /\ call[c].sent /\ req[c].pc = "done"
      /\ call[c].fetches = 1

\* the engine's own round trip gives the text back
EngineRoundTrip(e, text) == EngineDetokenize(e, EngineTokenize(e, text)) = text

\* C15: the tokens RemoteLLM.tokenize returns for a text, and the tokens
\* the engine's detokenize receives from RemoteLLM.detokenize, are the
\* tokens of the engine's tokenize; the text that comes back is the text
\* given whenever the engine's own round trip gives it back
C15_RoundTrip ==
    /\ trip.pc \in {"detokenize", "done"} =>
         /\ trip.tokens = EngineTokenize(llm, trip.text)
         /\ req["c1"].invoked # << >> =>
              req["c1"].invoked = <<Invocation("detokenize",
                                      <<EngineTokenize(llm, trip.text)>>)>>
    /\ trip.pc = "done" =>
         /\ trip.back = EngineDetokenize(llm, EngineTokenize(llm, trip.text))
         /\ EngineRoundTrip(llm, trip.text) => trip.back = trip.text

\* C15 witness: a text with a leading blank has come back through the
\* proxy as it was given
C15_Witness ==
    /\ trip.pc = "done"
    /\ trip.text = Str(" ab") /\ trip.back = Str(" ab")
    /\ trip.tokens = Arr(<<Num(9), Num(7), Num(8)>>)
    /\ authToken = TokenT

\* C16: a request that the authentication step refuses never has its body
\* read and never invokes the engine; it gets no response but 401, and gets
\* that one as soon as its target has been parsed
C16_AuthBeforeAnything ==
    \A i \in Slots :
      (HasRequest(i) /\ ~AuthPasses(authToken, req[i].hdr)) =>
        /\ req[i].pc \notin {"body", "engine"}
        /\ req[i].invoked = << >>
        /\ \A j \in DOMAIN req[i].resps : req[i].resps[j].status = 401
        /\ ~UrlThrows(req[i].url) => (req[i].pc = "done" /\ Len(req[i].resps) = 1)

\* C16 witness: GET /device with the wrong token has been answered 401
\* without a call of getDeviceInfo
C16_Witness ==
    \E i \in Slots :
      /\ authToken = TokenT
      /\ req[i].pc = "done" /\ req[i].method = "GET" /\ req[i].url = "/device"
      /\ IsBearerOf(req[i].hdr, TokenW)
      /\ Status(i) = 401 /\ req[i].invoked = << >>

\* C17: the listener is bound only when pre-warm is over, no connection
\* and no request exists before that, and after a pre-warm stage has thrown
\* the listener is bound and stays so until a termination signal
C17_PrewarmNeverFatal ==
    /\ listening => startup = "serving"
    /\ startup # "serving" => \A i \in Slots : req[i] = FreeReq
    /\ (warmFailed /\ signals = 0) => (startup = "serving" /\ listening)

\* C17 witness: after a pre-warm stage has thrown, a request to an
\* inference route has been answered 200
C17_Witness ==
    \E i \in Slots :
      /\ warmFailed
      /\ req[i].pc = "done" /\ req[i].url = "/rerank" /\ Status(i) = 200

\* C20: once shutdown has called the engine's dispose, no request makes
\* the server call an engine operation
C20_NoEngineCallAfterDispose ==
    [][\A i \in Slots :
         Len(req'[i].invoked) > Len(req[i].invoked) => disposeCalls = 0]_vars

\* C18: no step changes the token the server compares with or the engine
\* instance it holds, and after every step each answer is 401 or not by
\* the token of the start, whatever the credential store holds by then
C18_FixedAtStartup ==
    [][/\ authToken' = authToken
       /\ llm' = llm
       /\ \A i \in Slots :
            req'[i].pc = "done" =>
              (req'[i].resps[1].status = 401
                 <=> ~AuthPasses(authToken, req'[i].hdr))]_vars

\* C18 witness: the token the server was started with has been revoked in
\* the store, and a call made after that with this token has been served
C18_Witness ==
    /\ hist.last = "revokeToken" /\ hist.ret = TRUE /\ hist.quiet
    /\ ~Override /\ getAuthToken(env, file) = Null
    /\ authToken = TokenT /\ clientToken = TokenT
    /\ call["c1"].pc = "done" /\ call["c1"].outcome = "ok"
    /\ Status("c1") = 200

\* C19: a call of dispose, touchActivity or unloadIdleResources changes
\* nothing but the record that it was called: no call and no timer of
\* RemoteLLM, no request, and nothing of the server or of its engine
C19_StubsChangeNothing ==
    [][lifecycle' # lifecycle =>
         UNCHANGED <<authToken, engineHealthy, startup, listening, proc, signals,
                     disposing, disposeCalls, req, clientToken, call, storeVars,
                     llm, trip, warmFailed>>]_vars

\* C19 witness: a call started after dispose has returned the engine's
\* result, the server's engine never having been disposed of
C19_Witness ==
    /\ lifecycle.last = "dispose" /\ lifecycle.quiet
    /\ lifecycle.called = StubNames
    /\ call["c1"].pc = "done" /\ call["c1"].outcome = "ok"
    /\ call["c1"].result = ScoreObj(Num(1))
    /\ disposeCalls = 0

====
